---------------------------- MODULE Spec2Model ----------------------------
(***************************************************************************)
(* connectauth: authentication middleware and interceptor for connect.     *)
(*                                                                         *)
(* Strings that the code inspects byte by byte (the Content-Type header    *)
(* and the URL path) are sequences of one-character strings.  Contexts are *)
(* chains of value nodes: the sequence <<n1, ..., nk>> is the context      *)
(* obtained from context.Background() by k calls of context.WithValue,     *)
(* nk being the innermost (most recent) node.                              *)
(***************************************************************************)
EXTENDS Integers, Sequences, FiniteSets, TLC

VARIABLES
    base,       \* the ancestor context every inbound call derives from
    calls,      \* per inbound call: its request, position and observations
    ctx,        \* identity channel: the context under derivation
    parent,     \* identity channel: the context the last derivation started from
    op,         \* identity channel: the last derivation, <<name, argument>>
    ct,         \* protocol inference: the Content-Type header value
    protocol,   \* protocol inference: the inferred tag
    path,       \* procedure inference: the URL path
    procedure,  \* procedure inference: the inferred procedure
    inferred    \* inference: whether the function has been applied

vars == <<base, calls, ctx, parent, op, ct, protocol, path, procedure, inferred>>

---------------------------------------------------------------------------
(* Bounds *)

MaxCalls == 2       \* concurrent inbound calls
MaxDepth == 4       \* derivations applied to one context
MaxTail == 2        \* characters following a prefix of a Content-Type
MaxPathLen == 5     \* characters of a URL path
MaxMsgs == 1        \* messages passing through one stream

---------------------------------------------------------------------------
(* Values *)

\* Go's nil for an `any` value.
Nil == "nil"

\* Authentication results an AuthFunc may return besides nil.
Infos == {"Ali Baba", "Morgiana"}

\* The private context key: a value of the unexported type `key`.
infoKey == <<"connectauth.key", 0>>

\* A key of another package, of another type.
otherKey == <<"net/http.contextKey", 0>>

\* Seq of all sequences over S of length at most n.
RECURSIVE SeqsUpTo(_, _)
SeqsUpTo(S, n) ==
    IF n = 0 THEN {<<>>}
    ELSE LET shorter == SeqsUpTo(S, n - 1)
         IN  shorter \cup {Append(s, x) : s \in {t \in shorter : Len(t) = n - 1}, x \in S}

---------------------------------------------------------------------------
(* package strings *)

HasPrefix(s, prefix) ==
    Len(s) >= Len(prefix) /\ SubSeq(s, 1, Len(prefix)) = prefix

HasSuffix(s, suffix) ==
    Len(s) >= Len(suffix) /\ SubSeq(s, Len(s) - Len(suffix) + 1, Len(s)) = suffix

TrimSuffix(s, suffix) ==
    IF HasSuffix(s, suffix) THEN SubSeq(s, 1, Len(s) - Len(suffix)) ELSE s

\* The 0-based index of the last occurrence of the character c in s, or -1.
LastIndex(s, c) ==
    LET hits == {i \in 1..Len(s) : s[i] = c}
    IN  IF hits = {} THEN -1
        ELSE (CHOOSE i \in hits : \A j \in hits : j <= i) - 1

---------------------------------------------------------------------------
(* package context *)

Background == <<>>

WithValue(c, k, v) == Append(c, [key |-> k, val |-> v])

\* c.Value(k): the value of the innermost node bound to k, nil if there is none.
RECURSIVE Value(_, _)
Value(c, k) ==
    IF c = <<>> THEN Nil
    ELSE IF c[Len(c)].key = k THEN c[Len(c)].val
    ELSE Value(SubSeq(c, 1, Len(c) - 1), k)

---------------------------------------------------------------------------
(* Identity channel *)

\* Mutant: binds unconditionally, a nil result included.
SetInfo_AlwaysBinds(c, info) == WithValue(c, infoKey, info)

SetInfo(c, info) ==
    IF info = Nil THEN c ELSE WithValue(c, infoKey, info)

\* Mutant: reads the outermost binding of infoKey, the first one attached.
GetInfo_Outermost(c) ==
    LET bound == {i \in 1..Len(c) : c[i].key = infoKey}
    IN  IF bound = {} THEN Nil
        ELSE c[CHOOSE i \in bound : \A j \in bound : i <= j].val

GetInfo(c) == Value(c, infoKey)

\* Mutant: hands the context back, leaving an ancestor's binding readable.
WithoutInfo_ReturnsInput(c) == c

WithoutInfo(c) == WithValue(c, infoKey, Nil)

---------------------------------------------------------------------------
(* Errors *)

CodeUnauthenticated == "unauthenticated"
NoCode == "none"

\* A nil error.
NoError == [code |-> "nil", msg |-> ""]

\* connect.NewError(connect.CodeUnauthenticated, fmt.Errorf(...)).
Errorf(msg) == [code |-> CodeUnauthenticated, msg |-> msg]

\* errors.New(msg): an error that is no *connect.Error and carries no code.
PlainError(msg) == [code |-> NoCode, msg |-> msg]

---------------------------------------------------------------------------
(* Protocol and procedure inference *)

ProtocolConnect == "connect"
ProtocolGRPC == "grpc"
ProtocolGRPCWeb == "grpcweb"

AppGrpc ==
    <<"a","p","p","l","i","c","a","t","i","o","n","/","g","r","p","c">>
AppGrpcWeb == AppGrpc \o <<"-","w","e","b">>

\* Mutant: the trailing slash is not trimmed.
procedureFromHTTP_NoTrim(urlPath) ==
    LET p == urlPath
        ultimate == LastIndex(p, "/")
    IN  IF ultimate < 0 THEN <<>>
        ELSE LET penultimate == LastIndex(SubSeq(p, 1, ultimate), "/")
             IN  IF penultimate < 0 THEN <<>>
                 ELSE LET proc == SubSeq(p, penultimate + 1, Len(p))
                      IN  IF Len(proc) < 4 THEN <<>> ELSE proc

procedureFromHTTP(urlPath) ==
    LET p == TrimSuffix(urlPath, <<"/">>)
        ultimate == LastIndex(p, "/")
    IN  IF ultimate < 0 THEN <<>>
        ELSE LET penultimate == LastIndex(SubSeq(p, 1, ultimate), "/")
             IN  IF penultimate < 0 THEN <<>>
                 ELSE LET proc == SubSeq(p, penultimate + 1, Len(p))
                      IN  IF Len(proc) < 4 THEN <<>> ELSE proc

\* Mutant: the grpc prefix is tested before the grpc-web prefix.
protocolFromHTTP_GrpcFirst(contentType) ==
    IF HasPrefix(contentType, AppGrpc) THEN ProtocolGRPC
    ELSE IF HasPrefix(contentType, AppGrpcWeb) THEN ProtocolGRPCWeb
    ELSE ProtocolConnect

protocolFromHTTP(contentType) ==
    IF HasPrefix(contentType, AppGrpcWeb) THEN ProtocolGRPCWeb
    ELSE IF HasPrefix(contentType, AppGrpc) THEN ProtocolGRPC
    ELSE ProtocolConnect

---------------------------------------------------------------------------
(* Values of the variables a specification does not use *)


NoOp == <<"none", Nil>>

IdleChannel == ctx = Background /\ parent = Background /\ op = NoOp
IdleProtocol == ct = <<>> /\ protocol = ""
IdleProcedure == path = <<>> /\ procedure = <<>>

---------------------------------------------------------------------------
(* Inbound calls *)

Calls == 1..MaxCalls

CtAbsent == <<>>
CtJSON == <<"a","p","p","l","i","c","a","t","i","o","n","/","j","s","o","n">>
CtGrpcProto == AppGrpc \o <<"+","p","r","o","t","o">>
CtGrpcWebProto == AppGrpcWeb \o <<"+","p","r","o","t","o">>

\* Content-Type values of inbound HTTP requests.
InboundContentTypes == {CtAbsent, CtJSON, CtGrpcWebProto}

\* Authorization header values of inbound calls.
Authorizations == {"Bearer opensesame"}

\* The errors an AuthFunc returns: one built with Errorf, one plain.
AuthErrors == {Errorf("not the magic passphrase"), PlainError("credential store down")}

\* A result attached to the ancestor context by an earlier stage.
PriorInfo == "Cassim"

Bases == {Background, SetInfo(Background, PriorInfo)}

\* The HTTP request the server hands to the middleware.
HTTPRequest(contentType, authorization) ==
    [Path |-> <<"/","a","/","b">>,
     RemoteAddr |-> "10.0.0.1:4242",
     Header |-> [ContentType |-> contentType, Authorization |-> authorization]]

\* The decoded call the framework hands to the interceptor: Spec(), Peer() and
\* the request header.
RPCRequest(peerProtocol, authorization) ==
    [Spec |-> [Procedure |-> <<"/","a","/","b">>],
     Peer |-> [Addr |-> "10.0.0.1:4242", Protocol |-> peerProtocol],
     Header |-> [ContentType |-> CtJSON, Authorization |-> authorization]]

NoRequest == [none |-> TRUE]

IdleCall ==
    [kind |-> "none", pc |-> "idle", req |-> NoRequest, ctx |-> Background,
     authCalls |-> 0, authCtx |-> Background, authReq |-> NoRequest,
     info |-> Nil, err |-> NoError,
     nextCalls |-> 0, nextCtx |-> Background, nextReq |-> NoRequest,
     written |-> NoError, result |-> NoError, msgs |-> 0, trace |-> <<>>]

\* The classifier of connect.ErrorWriter, by Content-Type.
IsSupported(r) ==
    r.Header.ContentType \in {CtJSON, CtGrpcProto, CtGrpcWebProto}

\* The call enters an authentication function: i.auth(ctx, &Request{...}).
InvokeAuth(call, kind, r, rctx, descriptor) ==
    [call EXCEPT !.kind = kind, !.pc = "inAuth", !.req = r, !.ctx = rctx,
                 !.authCalls = @ + 1, !.authCtx = rctx, !.authReq = descriptor,
                 !.trace = Append(@, "auth")]

\* The call enters the next stage with context nctx and request r.
InvokeNext(call, nctx, r) ==
    [call EXCEPT !.pc = "inNext", !.nextCalls = @ + 1, !.nextCtx = nctx,
                 !.nextReq = r, !.trace = Append(@, "next")]

\* The authentication function has returned (info, err).
AuthReturned(call, info, err) ==
    [call EXCEPT !.info = info, !.err = err, !.trace = Append(@, "authret")]

\* Mutant: every request is authenticated, the classifier is not asked.
Wrap_Serve_AuthenticatesAll(call, r, rctx) ==
    InvokeAuth(call, "middleware", r, rctx,
               [Procedure |-> procedureFromHTTP(r.Path),
                ClientAddr |-> r.RemoteAddr,
                Protocol |-> protocolFromHTTP(r.Header.ContentType),
                Header |-> r.Header])

\* Middleware.Wrap, from the handler's entry to its first call out.
Wrap_Serve(call, r, rctx) ==
    IF ~IsSupported(r)
    THEN InvokeNext([call EXCEPT !.kind = "middleware", !.req = r, !.ctx = rctx],
                    rctx, r)
    ELSE InvokeAuth(call, "middleware", r, rctx,
                    [Procedure |-> procedureFromHTTP(r.Path),
                     ClientAddr |-> r.RemoteAddr,
                     Protocol |-> protocolFromHTTP(r.Header.ContentType),
                     Header |-> r.Header])

\* Mutant: the error is written but the handler does not return.
Wrap_AfterAuth_FallsThrough(call, info, err) ==
    LET got == AuthReturned(call, info, err)
        wrote == IF err # NoError
                 THEN [got EXCEPT !.written = err, !.trace = Append(@, "write")]
                 ELSE got
    IN  IF info # Nil
        THEN InvokeNext(wrote, SetInfo(call.ctx, info), call.req)
        ELSE InvokeNext(wrote, call.ctx, call.req)

\* Mutant: the result is kept in a field of the Middleware, which a call still
\* in its next stage has set before: that call's result is the one attached.
Wrap_AfterAuth_SharedResult(call, info, err) ==
    LET got == AuthReturned(call, info, err)
        held == {calls[d].info : d \in {x \in DOMAIN calls : calls[x].pc = "inNext"}} \ {Nil}
        shared == IF held = {} THEN info ELSE CHOOSE i \in held : TRUE
    IN  IF err # NoError
        THEN [got EXCEPT !.pc = "done", !.written = err,
                         !.trace = Append(@, "write")]
        ELSE IF info # Nil
        THEN InvokeNext(got, SetInfo(call.ctx, shared), call.req)
        ELSE InvokeNext(got, call.ctx, call.req)

\* Middleware.Wrap, from the authentication function's return on.
Wrap_AfterAuth(call, info, err) ==
    LET got == AuthReturned(call, info, err)
    IN  IF err # NoError
        THEN [got EXCEPT !.pc = "done", !.written = err,
                         !.trace = Append(@, "write")]
        ELSE IF info # Nil
        THEN InvokeNext(got, SetInfo(call.ctx, info), call.req)
        ELSE InvokeNext(got, call.ctx, call.req)

\* Interceptor.WrapUnary, up to the call of the authentication function.
WrapUnary_Call(call, r, rctx) ==
    InvokeAuth(call, "unary", r, rctx,
               [Procedure |-> r.Spec.Procedure,
                ClientAddr |-> r.Peer.Addr,
                Protocol |-> r.Peer.Protocol,
                Header |-> r.Header])

\* Mutant: the error is replaced by one built with Errorf from its message.
WrapUnary_AfterAuth_Recodes(call, info, err) ==
    LET got == AuthReturned(call, info, err)
    IN  IF err # NoError
        THEN [got EXCEPT !.pc = "done", !.result = Errorf(err.msg),
                         !.trace = Append(@, "return")]
        ELSE InvokeNext(got, SetInfo(call.ctx, info), call.req)

\* Mutant: the result is bound with context.WithValue whether nil or not.
WrapUnary_AfterAuth_AlwaysBinds(call, info, err) ==
    LET got == AuthReturned(call, info, err)
    IN  IF err # NoError
        THEN [got EXCEPT !.pc = "done", !.result = err,
                         !.trace = Append(@, "return")]
        ELSE InvokeNext(got, WithValue(call.ctx, infoKey, info), call.req)

\* Interceptor.WrapUnary, from the authentication function's return on.
WrapUnary_AfterAuth(call, info, err) ==
    LET got == AuthReturned(call, info, err)
    IN  IF err # NoError
        THEN [got EXCEPT !.pc = "done", !.result = err,
                         !.trace = Append(@, "return")]
        ELSE InvokeNext(got, SetInfo(call.ctx, info), call.req)

\* Mutant: the descriptor carries the still empty response header of the stream.
WrapStreamingHandler_Call_ResponseHeader(call, conn, rctx) ==
    InvokeAuth(call, "streaming", conn, rctx,
               [Procedure |-> conn.Spec.Procedure,
                ClientAddr |-> conn.Peer.Addr,
                Protocol |-> conn.Peer.Protocol,
                Header |-> [ContentType |-> <<>>, Authorization |-> ""]])

\* Mutant: the handler runs first, authentication is left to a later step.
WrapStreamingHandler_Call_NextFirst(call, conn, rctx) ==
    InvokeNext([call EXCEPT !.kind = "streaming", !.req = conn, !.ctx = rctx],
               rctx, conn)

\* Interceptor.WrapStreamingHandler, up to the call of the authentication function.
WrapStreamingHandler_Call(call, conn, rctx) ==
    InvokeAuth(call, "streaming", conn, rctx,
               [Procedure |-> conn.Spec.Procedure,
                ClientAddr |-> conn.Peer.Addr,
                Protocol |-> conn.Peer.Protocol,
                Header |-> conn.Header])

\* Mutant: the handler gets the inbound context, the result is not attached.
WrapStreamingHandler_AfterAuth_DropsInfo(call, info, err) ==
    LET got == AuthReturned(call, info, err)
    IN  IF err # NoError
        THEN [got EXCEPT !.pc = "done", !.result = err,
                         !.trace = Append(@, "return")]
        ELSE InvokeNext(got, call.ctx, call.req)

\* Interceptor.WrapStreamingHandler, from the authentication function's return on.
WrapStreamingHandler_AfterAuth(call, info, err) ==
    LET got == AuthReturned(call, info, err)
    IN  IF err # NoError
        THEN [got EXCEPT !.pc = "done", !.result = err,
                         !.trace = Append(@, "return")]
        ELSE InvokeNext(got, SetInfo(call.ctx, info), call.req)

\* The next stage returns; an interceptor returns what it returned.
NextReturned(call, res) ==
    [call EXCEPT !.pc = "done", !.result = res, !.trace = Append(@, "return")]

\* The streaming handler receives or sends a message on its conn, which the
\* interceptor hands to it as it got it.
MessagePassed(call) == [call EXCEPT !.msgs = @ + 1]

\* The context of call c on arrival: derived from the shared ancestor.
InboundContext(c) == WithValue(base, otherKey, c)

UnchangedOthers == UNCHANGED <<base, ctx, parent, op, ct, protocol, path, procedure, inferred>>

MiddlewareServe(c, contentType, authorization) ==
    /\ calls[c].pc = "idle"
    /\ calls' = [calls EXCEPT ![c] =
                    Wrap_Serve(@, HTTPRequest(contentType, authorization), InboundContext(c))]
    /\ UnchangedOthers

MiddlewareAfterAuth(c, info, err) ==
    /\ calls[c].pc = "inAuth"
    /\ calls[c].kind = "middleware"
    /\ calls' = [calls EXCEPT ![c] = Wrap_AfterAuth(@, info, err)]
    /\ UnchangedOthers

UnaryCall(c, peerProtocol, authorization) ==
    /\ calls[c].pc = "idle"
    /\ calls' = [calls EXCEPT ![c] =
                    WrapUnary_Call(@, RPCRequest(peerProtocol, authorization), InboundContext(c))]
    /\ UnchangedOthers

UnaryAfterAuth(c, info, err) ==
    /\ calls[c].pc = "inAuth"
    /\ calls[c].kind = "unary"
    /\ calls' = [calls EXCEPT ![c] = WrapUnary_AfterAuth(@, info, err)]
    /\ UnchangedOthers

StreamingCall(c, peerProtocol, authorization) ==
    /\ calls[c].pc = "idle"
    /\ calls' = [calls EXCEPT ![c] =
                    WrapStreamingHandler_Call(@, RPCRequest(peerProtocol, authorization), InboundContext(c))]
    /\ UnchangedOthers

StreamingAfterAuth(c, info, err) ==
    /\ calls[c].pc = "inAuth"
    /\ calls[c].kind = "streaming"
    /\ calls' = [calls EXCEPT ![c] = WrapStreamingHandler_AfterAuth(@, info, err)]
    /\ UnchangedOthers

StreamMessage(c) ==
    /\ calls[c].pc = "inNext"
    /\ calls[c].kind = "streaming"
    /\ calls[c].msgs < MaxMsgs
    /\ calls' = [calls EXCEPT ![c] = MessagePassed(@)]
    /\ UnchangedOthers

\* The next stage returns res; next.ServeHTTP returns nothing.
NextReturn(c, res) ==
    /\ calls[c].pc = "inNext"
    /\ calls[c].kind = "middleware" => res = NoError
    /\ calls' = [calls EXCEPT ![c] = NextReturned(@, res)]
    /\ UnchangedOthers

Init ==
    /\ base \in Bases
    /\ calls = [c \in Calls |-> IdleCall]
    /\ IdleChannel
    /\ IdleProtocol
    /\ IdleProcedure
    /\ inferred = FALSE

Next ==
    \/ \E c \in Calls, t \in InboundContentTypes, a \in Authorizations :
          MiddlewareServe(c, t, a)
    \/ \E c \in Calls, i \in Infos \cup {Nil}, e \in AuthErrors \cup {NoError} :
          MiddlewareAfterAuth(c, i, e)
    \/ \E c \in Calls, a \in Authorizations : UnaryCall(c, ProtocolConnect, a)
    \/ \E c \in Calls, i \in Infos \cup {Nil}, e \in AuthErrors \cup {NoError} :
          UnaryAfterAuth(c, i, e)
    \/ \E c \in Calls, a \in Authorizations : StreamingCall(c, ProtocolGRPC, a)
    \/ \E c \in Calls, i \in Infos \cup {Nil}, e \in AuthErrors \cup {NoError} :
          StreamingAfterAuth(c, i, e)
    \/ \E c \in Calls : StreamMessage(c)
    \/ \E c \in Calls : NextReturn(c, NoError)

Spec == Init /\ [][Next]_vars

---------------------------------------------------------------------------
(* Properties of the interception paths, checked under Spec *)

\* The call is on a path that authenticates: an interceptor call, or a
\* middleware request the classifier accepts.
Authenticates(call) ==
    \/ call.kind \in {"unary", "streaming"}
    \/ call.kind = "middleware" /\ IsSupported(call.req)

Occurrences(tr, ev) == Cardinality({k \in 1..Len(tr) : tr[k] = ev})

\* C1: Middleware.Wrap, for a request the classifier accepts: if the
\* authentication function returns a non-nil error, next is never invoked and
\* an error response is written instead.
C1_MiddlewareRejects ==
    \A c \in Calls :
        (/\ calls[c].kind = "middleware"
         /\ IsSupported(calls[c].req)
         /\ calls[c].err # NoError)
            => /\ calls[c].nextCalls = 0
               /\ Occurrences(calls[c].trace, "next") = 0
               /\ calls[c].written # NoError
               /\ calls[c].pc = "done"

\* A grpc-web request rejected by the middleware although a result came with the error.
C1_Witness ==
    \E c \in Calls :
        /\ calls[c].kind = "middleware"
        /\ calls[c].req.Header.ContentType = CtGrpcWebProto
        /\ calls[c].err \in AuthErrors
        /\ calls[c].info \in Infos
        /\ calls[c].written = calls[c].err
        /\ calls[c].nextCalls = 0

\* C2: on all three server-side paths, when the authentication function
\* succeeds with a non-nil result v, the next stage is invoked with a context
\* on which GetInfo returns exactly v.
C2_NextObservesResult ==
    \A c \in Calls :
        (/\ Authenticates(calls[c])
         /\ calls[c].pc \in {"inNext", "done"}
         /\ calls[c].err = NoError
         /\ calls[c].info # Nil)
            => /\ calls[c].nextCalls = 1
               /\ GetInfo(calls[c].nextCtx) = calls[c].info

\* A streaming call whose result replaces the one an earlier stage attached,
\* beside a middleware request that carries its own result.
C2_Witness ==
    \E c, d \in Calls :
        /\ calls[c].kind = "streaming"
        /\ calls[c].info \in Infos
        /\ GetInfo(calls[c].ctx) = PriorInfo
        /\ GetInfo(calls[c].nextCtx) = calls[c].info
        /\ calls[d].kind = "middleware"
        /\ calls[d].info \in Infos \ {calls[c].info}
        /\ GetInfo(calls[d].nextCtx) = calls[d].info

\* C3: Middleware.Wrap, for a request the classifier rejects: the
\* authentication function is never invoked, no authentication error is
\* produced, and next is invoked exactly once with the request and its context
\* unmodified.
C3_NonRPCBypasses ==
    \A c \in Calls :
        (calls[c].kind = "middleware" /\ ~IsSupported(calls[c].req))
            => /\ calls[c].authCalls = 0
               /\ Occurrences(calls[c].trace, "auth") = 0
               /\ calls[c].err = NoError
               /\ calls[c].written = NoError
               /\ calls[c].nextCalls = 1
               /\ Occurrences(calls[c].trace, "next") = 1
               /\ calls[c].nextReq = calls[c].req
               /\ calls[c].nextCtx = calls[c].ctx
               /\ calls[c].ctx = InboundContext(c)

\* A request without Content-Type has been served by next and has returned.
C3_Witness ==
    \E c \in Calls :
        /\ calls[c].kind = "middleware"
        /\ calls[c].req.Header.ContentType = CtAbsent
        /\ calls[c].pc = "done"
        /\ calls[c].nextCalls = 1

\* C4: WrapUnary and WrapStreamingHandler: when the authentication function
\* returns a non-nil error, the next stage is never invoked and the call ends
\* with exactly that error value.
C4_InterceptorAborts ==
    \A c \in Calls :
        (calls[c].kind \in {"unary", "streaming"} /\ calls[c].err # NoError)
            => /\ calls[c].nextCalls = 0
               /\ Occurrences(calls[c].trace, "next") = 0
               /\ calls[c].pc = "done"
               /\ calls[c].result = calls[c].err

\* A unary call ended with a plain error while a streaming call ended with a coded one.
C4_Witness ==
    \E c, d \in Calls :
        /\ calls[c].kind = "unary"
        /\ calls[c].err.code = NoCode
        /\ calls[c].result = calls[c].err
        /\ calls[d].kind = "streaming"
        /\ calls[d].err.code = CodeUnauthenticated
        /\ calls[d].result = calls[d].err

\* C5: for every inbound RPC call the authentication function is invoked
\* exactly once, its return precedes the invocation of the next stage and any
\* response, and a failure is not retried.
C5_AuthOnceBeforeNext ==
    \A c \in Calls :
        Authenticates(calls[c]) =>
            /\ calls[c].authCalls = 1
            /\ Occurrences(calls[c].trace, "auth") = 1
            /\ Occurrences(calls[c].trace, "authret") <= 1
            /\ calls[c].trace[1] = "auth"
            /\ \A k \in 1..Len(calls[c].trace) :
                  calls[c].trace[k] \in {"next", "write", "return"}
                      => \E j \in 1..(k - 1) : calls[c].trace[j] = "authret"
            /\ calls[c].pc = "done" => Occurrences(calls[c].trace, "authret") = 1

\* One call rejected after its single authentication, another authenticated
\* once and served to the end.
C5_Witness ==
    \E c, d \in Calls :
        /\ calls[c].trace = <<"auth", "authret", "write">>
        /\ calls[d].trace = <<"auth", "authret", "next", "return">>
        /\ calls[d].kind = "streaming"

\* C6: an error of the authentication function that carries no classification
\* reaches the caller with the unauthenticated classification: the error handed
\* to ErrorWriter.Write by the middleware, the error returned to the framework
\* by the interceptor.
C6_PlainErrorIsUnauthenticated ==
    \A c \in Calls :
        (calls[c].pc = "done" /\ calls[c].err # NoError /\ calls[c].err.code = NoCode)
            => /\ calls[c].kind = "middleware"
                    => calls[c].written.code = CodeUnauthenticated
               /\ calls[c].kind \in {"unary", "streaming"}
                    => calls[c].result.code = CodeUnauthenticated

\* C12: WrapStreamingHandler invokes the authentication function once, with a
\* descriptor built from the stream's request header, before the handler runs
\* and so before any message passes; no message is authenticated, and on
\* success the one augmented context is the handler's for the whole stream.
C12_StreamAuthBeforeMessages ==
    \A c \in Calls :
        calls[c].kind = "streaming" =>
            /\ calls[c].authCalls = 1
            /\ Occurrences(calls[c].trace, "auth") = 1
            /\ calls[c].trace[1] = "auth"
            /\ calls[c].authReq.Header = calls[c].req.Header
            /\ calls[c].authReq.Procedure = calls[c].req.Spec.Procedure
            /\ calls[c].authReq.ClientAddr = calls[c].req.Peer.Addr
            /\ calls[c].authReq.Protocol = calls[c].req.Peer.Protocol
            /\ calls[c].nextCalls <= 1
            /\ (calls[c].nextCalls = 1 \/ calls[c].msgs > 0)
                  => /\ SubSeq(calls[c].trace, 1, 3) = <<"auth", "authret", "next">>
                     /\ calls[c].err = NoError
                     /\ calls[c].nextCtx = SetInfo(calls[c].ctx, calls[c].info)
                     /\ calls[c].nextReq = calls[c].req

\* A stream authenticated once has passed a message and ended, its handler
\* reading the result throughout.
C12_Witness ==
    \E c \in Calls :
        /\ calls[c].kind = "streaming"
        /\ calls[c].msgs >= 1
        /\ calls[c].pc = "done"
        /\ calls[c].authCalls = 1
        /\ calls[c].info \in Infos
        /\ GetInfo(calls[c].nextCtx) = calls[c].info

\* What the next stage of a call must read: the call's own result, or what
\* the inbound context held when the authentication function returned nil.
OwnInfo(call) ==
    IF call.info # Nil THEN call.info ELSE GetInfo(call.ctx)

\* C13: with concurrent calls deriving from one ancestor, in every
\* interleaving, the next stage of a call reads that call's own result and
\* never the one attached for another call; attaching or stripping in one call
\* changes neither what the ancestor reads nor what another call reads.
C13_NoCrossCallLeak ==
    /\ [](\A c \in Calls :
            /\ calls[c].pc # "idle"
                  => /\ calls[c].ctx = InboundContext(c)
                     /\ GetInfo(calls[c].ctx) = GetInfo(base)
            /\ (calls[c].nextCalls = 1 /\ Authenticates(calls[c]))
                  => /\ GetInfo(calls[c].nextCtx) = OwnInfo(calls[c])
                     /\ GetInfo(WithoutInfo(calls[c].nextCtx)) = Nil
                     /\ \A d \in Calls \ {c} :
                           (/\ calls[d].info # Nil
                            /\ calls[c].info # Nil
                            /\ calls[d].info # calls[c].info)
                              => GetInfo(calls[c].nextCtx) # calls[d].info)
    /\ [][/\ base' = base
          /\ \A c \in Calls :
                /\ calls[c].pc # "idle" => calls'[c].ctx = calls[c].ctx
                /\ calls[c].nextCalls = 1 => calls'[c].nextCtx = calls[c].nextCtx]_vars

\* Two calls in their next stages at once, each reading its own result, above
\* an ancestor that holds an earlier stage's.
C13_Witness ==
    \E c, d \in Calls :
        /\ calls[c].pc = "inNext" /\ calls[d].pc = "inNext"
        /\ calls[c].kind = "middleware" /\ calls[d].kind = "middleware"
        /\ GetInfo(base) = PriorInfo
        /\ calls[c].info = "Ali Baba" /\ calls[d].info = "Morgiana"
        /\ GetInfo(calls[c].nextCtx) = "Ali Baba"
        /\ GetInfo(calls[d].nextCtx) = "Morgiana"

\* C15: when the authentication function succeeds with a nil result, all
\* three paths invoke next with the inbound context itself: a result an
\* earlier stage attached stays readable in the next stage, and a context
\* without a result still reads nil.
C15_NilResultKeepsContext ==
    \A c \in Calls :
        (/\ Authenticates(calls[c])
         /\ calls[c].nextCalls = 1
         /\ calls[c].err = NoError
         /\ calls[c].info = Nil)
            => /\ calls[c].nextCtx = calls[c].ctx
               /\ calls[c].nextCtx = InboundContext(c)
               /\ GetInfo(calls[c].nextCtx) = GetInfo(base)
               /\ GetInfo(base) = Nil => GetInfo(calls[c].nextCtx) = Nil
               /\ GetInfo(base) = PriorInfo => GetInfo(calls[c].nextCtx) = PriorInfo

\* An interceptor call and a middleware request, both authenticated with a nil
\* result, read in their next stages the result an earlier stage attached.
C15_Witness ==
    \E c, d \in Calls :
        /\ calls[c].kind = "unary"
        /\ calls[d].kind = "middleware"
        /\ IsSupported(calls[d].req)
        /\ calls[c].nextCalls = 1 /\ calls[d].nextCalls = 1
        /\ calls[c].info = Nil /\ calls[d].info = Nil
        /\ GetInfo(base) = PriorInfo
        /\ GetInfo(calls[c].nextCtx) = PriorInfo
        /\ GetInfo(calls[d].nextCtx) = PriorInfo

---------------------------------------------------------------------------
(* Identity channel: derivations from a fresh context *)

\* Values another package stores under its own key.
OtherValues == {"conn"}

DeriveSetInfo(info) ==
    /\ Len(ctx) < MaxDepth
    /\ ctx' = SetInfo(ctx, info)
    /\ parent' = ctx
    /\ op' = <<"SetInfo", info>>
    /\ UNCHANGED <<base, calls, ct, protocol, path, procedure, inferred>>

DeriveWithoutInfo ==
    /\ Len(ctx) < MaxDepth
    /\ ctx' = WithoutInfo(ctx)
    /\ parent' = ctx
    /\ op' = <<"WithoutInfo", Nil>>
    /\ UNCHANGED <<base, calls, ct, protocol, path, procedure, inferred>>

DeriveWithValue(v) ==
    /\ Len(ctx) < MaxDepth
    /\ ctx' = WithValue(ctx, otherKey, v)
    /\ parent' = ctx
    /\ op' = <<"WithValue", v>>
    /\ UNCHANGED <<base, calls, ct, protocol, path, procedure, inferred>>

InitChannel ==
    /\ ctx = Background
    /\ parent = Background
    /\ op = NoOp
    /\ base = Background
    /\ calls = <<>>
    /\ IdleProtocol
    /\ IdleProcedure
    /\ inferred = FALSE

NextChannel ==
    \/ \E info \in Infos \cup {Nil} : DeriveSetInfo(info)
    \/ DeriveWithoutInfo
    \/ \E v \in OtherValues : DeriveWithValue(v)

SpecChannel == InitChannel /\ [][NextChannel]_vars

---------------------------------------------------------------------------
(* Protocol inference over Content-Type values *)

TailAlphabet == {"-", "+", "w", "x"}

\* Every prefix of "application/grpc-web" followed by at most MaxTail characters;
\* the empty value is what Header.Get returns for an absent header.
ContentTypes ==
    {SubSeq(AppGrpcWeb, 1, n) \o t :
        n \in 0..Len(AppGrpcWeb), t \in SeqsUpTo(TailAlphabet, MaxTail)}

InferProtocol ==
    /\ ~inferred
    /\ protocol' = protocolFromHTTP(ct)
    /\ inferred' = TRUE
    /\ UNCHANGED <<base, calls, ctx, parent, op, ct, path, procedure>>

InitProtocol ==
    /\ ct \in ContentTypes
    /\ protocol = ""
    /\ inferred = FALSE
    /\ base = Background
    /\ calls = <<>>
    /\ IdleChannel
    /\ IdleProcedure

SpecProtocol == InitProtocol /\ [][InferProtocol]_vars

---------------------------------------------------------------------------
(* Procedure inference over URL paths *)

PathAlphabet == {"/", "a", "b"}

Paths == SeqsUpTo(PathAlphabet, MaxPathLen)

InferProcedure ==
    /\ ~inferred
    /\ procedure' = procedureFromHTTP(path)
    /\ inferred' = TRUE
    /\ UNCHANGED <<base, calls, ctx, parent, op, ct, protocol, path>>

InitProcedure ==
    /\ path \in Paths
    /\ procedure = <<>>
    /\ inferred = FALSE
    /\ base = Background
    /\ calls = <<>>
    /\ IdleChannel
    /\ IdleProtocol

SpecProcedure == InitProcedure /\ [][InferProcedure]_vars

---------------------------------------------------------------------------
(* Properties of the identity channel, checked under SpecChannel *)

\* C7: for every context, whatever derivations produced it and whatever its
\* ancestors hold, GetInfo(WithoutInfo(ctx)) is nil, and so is
\* GetInfo(WithoutInfo(SetInfo(ctx, v))) for every non-nil v.
C7_StripReadsNil ==
    /\ GetInfo(WithoutInfo(ctx)) = Nil
    /\ \A v \in Infos : GetInfo(WithoutInfo(SetInfo(ctx, v))) = Nil
    /\ op[1] = "WithoutInfo" => GetInfo(ctx) = Nil

\* A context stripped although it carried a result, below another package's node.
C7_Witness ==
    /\ op[1] = "WithoutInfo"
    /\ GetInfo(parent) \in Infos
    /\ \E i \in 1..Len(parent) : parent[i].key = otherKey
    /\ GetInfo(ctx) = Nil

\* C8: SetInfo(ctx, nil) returns the input context itself, with no new binding,
\* and GetInfo reads on it what it read on ctx.
C8_SetInfoNilIsInput ==
    /\ SetInfo(ctx, Nil) = ctx
    /\ op = <<"SetInfo", Nil>> => ctx = parent /\ GetInfo(ctx) = GetInfo(parent)

\* nil attached to a context produced by WithoutInfo above an attached result.
C8_Witness ==
    /\ op = <<"SetInfo", Nil>>
    /\ Len(parent) >= 2
    /\ parent[Len(parent)] = [key |-> infoKey, val |-> Nil]
    /\ \E i \in 1..Len(parent) : parent[i].key = infoKey /\ parent[i].val \in Infos
    /\ ctx = parent

\* What the nearest derivation under infoKey left on the chain c: the value of
\* the infoKey node closest to the end, nil when the chain has none.
NearestDerivation(c) ==
    LET bound == {i \in 1..Len(c) : c[i].key = infoKey}
    IN  IF bound = {} THEN Nil
        ELSE c[CHOOSE i \in bound : \A j \in bound : j <= i].val

\* C14: after any sequence of derivations from a fresh context, GetInfo
\* returns what the most recent effective derivation left: v after SetInfo with
\* a non-nil v, nil after WithoutInfo, nil on a fresh context; SetInfo after
\* WithoutInfo makes a result readable again, and no derivation changes what
\* GetInfo returns on the parent context.
C14_ReadsNearestDerivation ==
    /\ GetInfo(ctx) = NearestDerivation(ctx)
    /\ op = NoOp => ctx = Background /\ GetInfo(ctx) = Nil
    /\ (op[1] = "SetInfo" /\ op[2] # Nil) => GetInfo(ctx) = op[2]
    /\ op[1] = "WithoutInfo" => GetInfo(ctx) = Nil
    /\ (op = <<"SetInfo", Nil>> \/ op[1] = "WithValue") => GetInfo(ctx) = GetInfo(parent)
    /\ Len(parent) <= Len(ctx)
    /\ SubSeq(ctx, 1, Len(parent)) = parent
    /\ GetInfo(parent) = NearestDerivation(parent)

\* A result attached after a strip that hid another result: the new one is
\* read, and the parent still reads nil.
C14_Witness ==
    /\ op[1] = "SetInfo"
    /\ op[2] \in Infos
    /\ Len(parent) >= 2
    /\ parent[Len(parent)] = [key |-> infoKey, val |-> Nil]
    /\ \E i \in 1..Len(parent) : parent[i].val \in Infos \ {op[2]}
    /\ GetInfo(parent) = Nil
    /\ GetInfo(ctx) = op[2]

---------------------------------------------------------------------------
(* Properties of the inference functions *)

\* p is a prefix of s, character by character.
IsPrefixOf(p, s) == Len(p) <= Len(s) /\ \A i \in 1..Len(p) : s[i] = p[i]

\* C9: a Content-Type with prefix application/grpc-web gives the grpc-web tag;
\* one with prefix application/grpc but not application/grpc-web gives the grpc
\* tag; every other value, the absent header included, gives the connect tag.
C9_ProtocolMapping ==
    inferred =>
        /\ IsPrefixOf(AppGrpcWeb, ct) => protocol = ProtocolGRPCWeb
        /\ IsPrefixOf(AppGrpcWeb, ct) => protocol # ProtocolGRPC
        /\ IsPrefixOf(AppGrpc, ct) /\ ~IsPrefixOf(AppGrpcWeb, ct) => protocol = ProtocolGRPC
        /\ ~IsPrefixOf(AppGrpc, ct) => protocol = ProtocolConnect

\* application/grpc-web+w has been classified.
C9_Witness ==
    /\ inferred
    /\ ct = AppGrpcWeb \o <<"+", "w">>
    /\ protocol = ProtocolGRPCWeb

NoSlash(s) == \A i \in 1..Len(s) : s[i] # "/"

SlashCount(s) == Cardinality({i \in 1..Len(s) : s[i] = "/"})

\* q ends in "/service/method": its slash at i opens a non-empty service, its
\* slash at j a non-empty method, and neither holds a slash.
EndsInServiceMethod(q, i, j) ==
    /\ 1 <= i /\ i + 1 < j /\ j < Len(q)
    /\ q[i] = "/" /\ q[j] = "/"
    /\ NoSlash(SubSeq(q, i + 1, j - 1))
    /\ NoSlash(SubSeq(q, j + 1, Len(q)))

\* The path less one trailing slash holds at most one slash.
FewerThanTwoSegments(q) ==
    SlashCount(IF Len(q) > 0 /\ q[Len(q)] = "/" THEN SubSeq(q, 1, Len(q) - 1) ELSE q) < 2

\* C10: a path ending in a non-empty service and a non-empty method gives
\* "/service/method", whatever precedes them; so does that path with one
\* trailing slash appended; a path with fewer than two segments gives "".
C10_ProcedureInference ==
    inferred =>
        /\ \A i, j \in 1..Len(path) :
              EndsInServiceMethod(path, i, j) => procedure = SubSeq(path, i, Len(path))
        /\ \A i, j \in 1..Len(path) :
              (/\ path[Len(path)] = "/"
               /\ EndsInServiceMethod(SubSeq(path, 1, Len(path) - 1), i, j))
                  => procedure = SubSeq(path, i, Len(path) - 1)
        /\ FewerThanTwoSegments(path) => procedure = <<>>

\* "/a/b/" has been inferred as "/a/b".
C10_Witness ==
    /\ inferred
    /\ path = <<"/", "a", "/", "b", "/">>
    /\ procedure = <<"/", "a", "/", "b">>


\* p is "/service/method": exactly two slashes, the first opening a non-empty
\* service, the second a non-empty method.
IsServiceMethod(p) ==
    /\ Len(p) >= 4
    /\ p[1] = "/"
    /\ SlashCount(p) = 2
    /\ \E j \in 3..(Len(p) - 1) : p[j] = "/"

\* C11: for every request path, procedureFromHTTP returns either the empty
\* string or "/service/method" with exactly two slashes, a non-empty service
\* and a non-empty method: the length-4 check rejects every assembled
\* procedure with an empty service or an empty method.
C11_ProcedureShape ==
    inferred => (procedure = <<>> \/ IsServiceMethod(procedure))

=============================================================================
